---- MODULE Spec2Model ----
(***************************************************************************)
(* Model of the resilient fetch_user tool of the MCP server starter       *)
(* (src/src/examples/rest-api.ts, second module, lines 126-330).          *)
(*                                                                         *)
(* Strings are TLA+ strings; a JSON value is a tagged record (JStr, JNum, *)
(* JObj, JNull) so that the schema can tell the type of a value.  The     *)
(* schema library (zod 3) is an external collaborator; UserDataSchema is  *)
(* modelled by what z.object(...).strict().parse does on the sample       *)
(* bodies: it walks the declared keys in order, collects one issue per    *)
(* violated constraint, strips unknown keys of the non-strict nested      *)
(* objects and reports the unknown keys of the strict top-level object.   *)
(***************************************************************************)
EXTENDS Integers, Sequences, FiniteSets, TLC

(***************************************************************************)
(* Bounds of the model.                                                    *)
(***************************************************************************)
MaxUserId == 2

(***************************************************************************)
(* Constants of the retry logic.                                           *)
(***************************************************************************)
\* a retry budget that is one too large
MAX_RETRIES_OneMore == 3 + 1

MAX_RETRIES == 3

INITIAL_RETRY_DELAY == 1000

(***************************************************************************)
(* String helpers.                                                         *)
(***************************************************************************)
CharAt(s, i) == SubSeq(s, i, i)

Contains(s, t) ==
  \E i \in 1..(Len(s) - Len(t) + 1) : SubSeq(s, i, i + Len(t) - 1) = t

StartsWith(s, t) == Len(s) >= Len(t) /\ SubSeq(s, 1, Len(t)) = t

Digits == "0123456789"

Letters == "abcdefghijklmnopqrstuvwxyzABCDEFGHIJKLMNOPQRSTUVWXYZ"

IsDigit(c) == Contains(Digits, c)

IsLetter(c) == Contains(Letters, c)

IsAlnum(c) == IsDigit(c) \/ IsLetter(c)

\* Array.prototype.join: the elements of a sequence of strings, separated by sep
RECURSIVE Join(_, _)
Join(strs, sep) ==
  IF Len(strs) = 0 THEN ""
  ELSE IF Len(strs) = 1 THEN strs[1]
  ELSE strs[1] \o sep \o Join(Tail(strs), sep)

(***************************************************************************)
(* JSON values.                                                            *)
(***************************************************************************)
JStr(s) == [t |-> "string", s |-> s, n |-> 0]

JNum(n) == [t |-> "number", s |-> "", n |-> n]

JObj(o) == [t |-> "object", o |-> o]

JNull == [t |-> "null", s |-> "", n |-> 0]

\* the value of a key that is not present in an object
JUndefined == [t |-> "undefined", s |-> "", n |-> 0]

Get(obj, key) == IF key \in DOMAIN obj.o THEN obj.o[key] ELSE JUndefined

TypeOf(v) == v.t

(***************************************************************************)
(* String formats used by UserDataSchema.                                  *)
(***************************************************************************)
\* zod 3 email format:
\* /^(?!\.)(?!.*\.\.)([A-Z0-9_'+\-\.]*)[A-Z0-9_+-]@([A-Z0-9][A-Z0-9\-]*\.)+[A-Z]{2,}$/i
IsEmailLocal(l) ==
  /\ Len(l) >= 1
  /\ \A i \in 1..Len(l) : IsAlnum(CharAt(l, i)) \/ Contains("_'+-.", CharAt(l, i))
  /\ IsAlnum(CharAt(l, Len(l))) \/ Contains("_+-", CharAt(l, Len(l)))

IsEmailDomain(d) ==
  \E p \in 2..(Len(d) - 2) :
    /\ CharAt(d, p) = "."
    /\ \A i \in (p + 1)..Len(d) : IsLetter(CharAt(d, i))
    /\ IsAlnum(CharAt(d, 1))
    /\ \A i \in 1..(p - 1) :
         /\ IsAlnum(CharAt(d, i)) \/ Contains("-.", CharAt(d, i))
         /\ CharAt(d, i) = "." => IsAlnum(CharAt(d, i + 1))

IsEmail(s) ==
  /\ Len(s) >= 1
  /\ CharAt(s, 1) # "."
  /\ ~Contains(s, "..")
  /\ \E at \in 2..(Len(s) - 1) :
       /\ CharAt(s, at) = "@"
       /\ IsEmailLocal(SubSeq(s, 1, at - 1))
       /\ IsEmailDomain(SubSeq(s, at + 1, Len(s)))

\* /^\d{5}(-\d{4})?$/
IsZipcode(s) ==
  \/ Len(s) = 5 /\ \A i \in 1..5 : IsDigit(CharAt(s, i))
  \/ /\ Len(s) = 10
     /\ CharAt(s, 6) = "-"
     /\ \A i \in (1..5) \cup (7..10) : IsDigit(CharAt(s, i))

\* /^[0-9-().+ ]+$/
IsPhone(s) ==
  /\ Len(s) >= 1
  /\ \A i \in 1..Len(s) : IsDigit(CharAt(s, i)) \/ Contains("-().+ ", CharAt(s, i))

\* z.string().url(): `new URL(s)` does not throw.  A URL needs a scheme
\* ([A-Za-z][A-Za-z0-9+.-]*) followed by ":"; an http(s) URL also needs a
\* non-empty host without spaces after the optional slashes.
IsUrl(s) ==
  \E c \in 2..Len(s) :
    /\ CharAt(s, c) = ":"
    /\ IsLetter(CharAt(s, 1))
    /\ \A i \in 2..(c - 1) : IsAlnum(CharAt(s, i)) \/ Contains("+.-", CharAt(s, i))
    /\ SubSeq(s, 1, c - 1) \in {"http", "https"} =>
         /\ ~Contains(s, " ")
         /\ \E h \in (c + 1)..Len(s) : CharAt(s, h) # "/"

(***************************************************************************)
(* UserDataSchema (zod 3 semantics).  An issue carries the path of the    *)
(* offending value and the message of the violated constraint.            *)
(***************************************************************************)
Issue(path, message) == [path |-> path, message |-> message]

\* z.string() with at most one refinement (min, email, regex, url)
ZString(v, path, refined, message) ==
  IF TypeOf(v) = "undefined" THEN <<Issue(path, "Required")>>
  ELSE IF TypeOf(v) # "string"
    THEN <<Issue(path, "Expected string, received " \o TypeOf(v))>>
  ELSE IF ~refined THEN <<Issue(path, message)>>
  ELSE <<>>

\* z.number().positive()
ZNumberPositive(v, path) ==
  IF TypeOf(v) = "undefined" THEN <<Issue(path, "Required")>>
  ELSE IF TypeOf(v) # "number"
    THEN <<Issue(path, "Expected number, received " \o TypeOf(v))>>
  ELSE IF ~(v.n > 0) THEN <<Issue(path, "Number must be greater than 0")>>
  ELSE <<>>

\* a nested z.object: a missing or non-object value is one issue, otherwise
\* the issues of the declared fields; unknown keys are stripped, not reported
ZObject(v, path, fieldIssues) ==
  IF TypeOf(v) = "undefined" THEN <<Issue(path, "Required")>>
  ELSE IF TypeOf(v) # "object"
    THEN <<Issue(path, "Expected object, received " \o TypeOf(v))>>
  ELSE fieldIssues

AddressIssues(a) ==
  ZObject(a, "address",
       ZString(Get(a, "street"), "address.street", TRUE, "")
    \o ZString(Get(a, "suite"), "address.suite", TRUE, "")
    \o ZString(Get(a, "city"), "address.city", TRUE, "")
    \o ZString(Get(a, "zipcode"), "address.zipcode",
               IsZipcode(Get(a, "zipcode").s), "Invalid zipcode format"))

CompanyIssues(c) ==
  ZObject(c, "company",
       ZString(Get(c, "name"), "company.name", TRUE, "")
    \o ZString(Get(c, "catchPhrase"), "company.catchPhrase", TRUE, "")
    \o ZString(Get(c, "bs"), "company.bs", TRUE, ""))

\* the keys declared by the top-level object, in declaration order
UserDataKeys ==
  <<"id", "name", "username", "email", "address", "phone", "website", "company">>

\* the order in which the keys of a sample body were inserted (Object.keys)
KeyOrder == UserDataKeys \o <<"role", "geo", "logo">>

InSeq(x, seq) == \E i \in 1..Len(seq) : seq[i] = x

\* .strict(): the keys of the top-level object that the schema does not declare
UnrecognizedKeys(raw) ==
  SelectSeq(KeyOrder, LAMBDA k : k \in DOMAIN raw.o /\ ~InSeq(k, UserDataKeys))

Quoted(k) == "'" \o k \o "'"

RECURSIVE QuoteAll(_)
QuoteAll(keys) ==
  IF Len(keys) = 0 THEN <<>> ELSE <<Quoted(keys[1])>> \o QuoteAll(Tail(keys))

StrictIssues(raw) ==
  IF Len(UnrecognizedKeys(raw)) = 0 THEN <<>>
  ELSE <<Issue("", "Unrecognized key(s) in object: "
                     \o Join(QuoteAll(UnrecognizedKeys(raw)), ", "))>>

UserDataIssues(raw) ==
  IF TypeOf(raw) # "object"
    THEN <<Issue("", "Expected object, received " \o TypeOf(raw))>>
  ELSE ZNumberPositive(Get(raw, "id"), "id")
    \o ZString(Get(raw, "name"), "name",
               Len(Get(raw, "name").s) >= 1,
               "String must contain at least 1 character(s)")
    \o ZString(Get(raw, "username"), "username",
               Len(Get(raw, "username").s) >= 1,
               "String must contain at least 1 character(s)")
    \o ZString(Get(raw, "email"), "email",
               IsEmail(Get(raw, "email").s), "Invalid email")
    \o AddressIssues(Get(raw, "address"))
    \o ZString(Get(raw, "phone"), "phone",
               IsPhone(Get(raw, "phone").s), "Invalid phone format")
    \o ZString(Get(raw, "website"), "website",
               IsUrl(Get(raw, "website").s), "Invalid url")
    \o CompanyIssues(Get(raw, "company"))
    \o StrictIssues(raw)

\* the typed value of a body without issues: the declared keys only
UserDataOf(raw) ==
  [id |-> Get(raw, "id").n,
   name |-> Get(raw, "name").s,
   username |-> Get(raw, "username").s,
   email |-> Get(raw, "email").s,
   address |-> [street |-> Get(Get(raw, "address"), "street").s,
                suite |-> Get(Get(raw, "address"), "suite").s,
                city |-> Get(Get(raw, "address"), "city").s,
                zipcode |-> Get(Get(raw, "address"), "zipcode").s],
   phone |-> Get(raw, "phone").s,
   website |-> Get(raw, "website").s,
   company |-> [name |-> Get(Get(raw, "company"), "name").s,
                catchPhrase |-> Get(Get(raw, "company"), "catchPhrase").s,
                bs |-> Get(Get(raw, "company"), "bs").s]]

\* UserDataSchema.safeParse: parse returns data when success, throws a
\* ZodError carrying the issues otherwise
UserDataSchema(raw) ==
  [success |-> Len(UserDataIssues(raw)) = 0, issues |-> UserDataIssues(raw)]

(***************************************************************************)
(* Helpers of the tool.                                                    *)
(***************************************************************************)
RECURSIVE Pow2(_)
Pow2(n) == IF n <= 0 THEN 1 ELSE 2 * Pow2(n - 1)

\* a delay that does not grow
getRetryDelay_Constant(attempt) == INITIAL_RETRY_DELAY

\* a delay that grows linearly
getRetryDelay_Linear(attempt) == INITIAL_RETRY_DELAY * (attempt + 1)

getRetryDelay(attempt) == INITIAL_RETRY_DELAY * Pow2(attempt)

\* a profile text without the Email line
formatUserData_NoEmail(userData) ==
     "User Profile:\n"
  \o "  Name: " \o userData.name \o "\n"
  \o "  Username: " \o userData.username \o "\n"
  \o "  Address: " \o userData.address.street \o ", " \o userData.address.suite \o "\n"
  \o "           " \o userData.address.city \o ", " \o userData.address.zipcode \o "\n"
  \o "  Phone: " \o userData.phone \o "\n"
  \o "  Website: " \o userData.website \o "\n"
  \o "  Company: " \o userData.company.name \o "\n"
  \o "          \"" \o userData.company.catchPhrase \o "\""

formatUserData(userData) ==
     "User Profile:\n"
  \o "  Name: " \o userData.name \o "\n"
  \o "  Username: " \o userData.username \o "\n"
  \o "  Email: " \o userData.email \o "\n"
  \o "  Address: " \o userData.address.street \o ", " \o userData.address.suite \o "\n"
  \o "           " \o userData.address.city \o ", " \o userData.address.zipcode \o "\n"
  \o "  Phone: " \o userData.phone \o "\n"
  \o "  Website: " \o userData.website \o "\n"
  \o "  Company: " \o userData.company.name \o "\n"
  \o "          \"" \o userData.company.catchPhrase \o "\""

(***************************************************************************)
(* JavaScript error values and tool results.                               *)
(***************************************************************************)
Err(class, message, issues) == [class |-> class, message |-> message, issues |-> issues]

NoError == Err("none", "", <<>>)

\* a test that takes a JSON parse error for a validation error
instanceofZodError_OrSyntaxError(error) == error.class \in {"ZodError", "SyntaxError"}

instanceofZodError(error) == error.class = "ZodError"

instanceofError(error) ==
  error.class \in {"Error", "TypeError", "SyntaxError", "ZodError"}

\* error.errors.map(e => e.message)
RECURSIVE Messages(_)
Messages(issues) ==
  IF Len(issues) = 0 THEN <<>> ELSE <<issues[1].message>> \o Messages(Tail(issues))

\* { content: [{ type: "text", text }] }
TextResult(text) == [content |-> <<[type |-> "text", text |-> text]>>]

\* { content: [{ type: "text", text }], isError: true }
ErrorResult(text) ==
  [content |-> <<[type |-> "text", text |-> text]>>, isError |-> TRUE]

NoResult == [content |-> <<>>]

\* a not-found result without the error flag
NotFoundResult_NoFlag(userId) ==
  TextResult("User with ID " \o ToString(userId) \o " not found")

NotFoundResult(userId) ==
  ErrorResult("User with ID " \o ToString(userId) \o " not found")

RateLimitResult == ErrorResult("Rate limit exceeded. Please try again later.")

\* a result that reports the first violation only
InvalidFormatResult_FirstOnly(error) ==
  ErrorResult("Invalid API response format: " \o error.issues[1].message)

InvalidFormatResult(error) ==
  ErrorResult("Invalid API response format: " \o Join(Messages(error.issues), ", "))

FailedToFetchResult(error) ==
  ErrorResult("Failed to fetch user data: " \o error.message)

UnknownErrorResult ==
  ErrorResult("An unknown error occurred while fetching user data")

ExhaustedResult ==
  ErrorResult("Failed to fetch user data after all retry attempts")

(***************************************************************************)
(* What the handler does between two suspensions: it returns a result,    *)
(* starts a backoff timer, awaits the body, or an exception is in flight.  *)
(***************************************************************************)
Return(r) == [next |-> "return", result |-> r, delay |-> 0, error |-> NoError]

Backoff(d) == [next |-> "backoff", result |-> NoResult, delay |-> d, error |-> NoError]

AwaitJson == [next |-> "json", result |-> NoResult, delay |-> 0, error |-> NoError]

Throw(e) == [next |-> "throw", result |-> NoResult, delay |-> 0, error |-> e]

\* Response.ok
ok(status) == status >= 200 /\ status <= 299

\* a test that takes the second attempt for the last one too
LastAttempt_Early(attempt) == attempt >= MAX_RETRIES - 2

\* an off-by-one test of the last attempt
LastAttempt_OffByOne(attempt) == attempt = MAX_RETRIES

LastAttempt(attempt) == attempt = MAX_RETRIES - 1

LoopTest(attempt) == attempt < MAX_RETRIES

\* a 404 handled like any other failed status
OnResponse_RetriesNotFound(attempt, userId, response) ==
  IF response.status = 429
    THEN IF attempt = MAX_RETRIES - 1 THEN Return(RateLimitResult)
         ELSE Backoff(getRetryDelay(attempt))
  ELSE IF ~ok(response.status)
    THEN Throw(Err("Error",
                   "HTTP " \o ToString(response.status) \o ": " \o response.statusText,
                   <<>>))
  ELSE AwaitJson

\* a failed status thrown without the status
OnResponse_DropsStatus(attempt, userId, response) ==
  IF response.status = 404 THEN Return(NotFoundResult(userId))
  ELSE IF response.status = 429
    THEN IF attempt = MAX_RETRIES - 1 THEN Return(RateLimitResult)
         ELSE Backoff(getRetryDelay(attempt))
  ELSE IF ~ok(response.status) THEN Throw(Err("Error", "Request failed", <<>>))
  ELSE AwaitJson

\* status checks without the test of response.ok
OnResponse_ReadsAnyBody(attempt, userId, response) ==
  IF response.status = 404 THEN Return(NotFoundResult(userId))
  ELSE IF response.status = 429
    THEN IF LastAttempt(attempt) THEN Return(RateLimitResult)
         ELSE Backoff(getRetryDelay(attempt))
  ELSE AwaitJson

\* a rate-limit branch that waits on every attempt, the last one included
OnResponse_WaitsOnLast(attempt, userId, response) ==
  IF response.status = 404 THEN Return(NotFoundResult(userId))
  ELSE IF response.status = 429 THEN Backoff(getRetryDelay(attempt))
  ELSE IF ~ok(response.status)
    THEN Throw(Err("Error",
                   "HTTP " \o ToString(response.status) \o ": " \o response.statusText,
                   <<>>))
  ELSE AwaitJson

\* lines 241-272: the status checks that follow `await fetch(...)`
OnResponse(attempt, userId, response) ==
  IF response.status = 404 THEN Return(NotFoundResult(userId))
  ELSE IF response.status = 429
    THEN IF LastAttempt(attempt) THEN Return(RateLimitResult)
         ELSE Backoff(getRetryDelay(attempt))
  ELSE IF ~ok(response.status)
    THEN Throw(Err("Error",
                   "HTTP " \o ToString(response.status) \o ": " \o response.statusText,
                   <<>>))
  ELSE AwaitJson

\* a success that returns the name instead of the formatted record
OnJson_Unformatted(rawData) ==
  IF UserDataSchema(rawData).success
    THEN Return(TextResult(Get(rawData, "name").s))
  ELSE Throw(Err("ZodError", "", UserDataSchema(rawData).issues))

\* lines 273-281: validate the parsed body and format it
OnJson(rawData) ==
  IF UserDataSchema(rawData).success
    THEN Return(TextResult(formatUserData(UserDataOf(rawData))))
  ELSE Throw(Err("ZodError", "", UserDataSchema(rawData).issues))

\* a catch block that rethrows what is not an Error
CatchBlock_RethrowsUnknown(attempt, error) ==
  IF attempt = MAX_RETRIES - 1
    THEN IF instanceofZodError(error) THEN Return(InvalidFormatResult(error))
         ELSE IF instanceofError(error) THEN Return(FailedToFetchResult(error))
         ELSE Throw(error)
  ELSE Backoff(getRetryDelay(attempt))

\* a catch block that waits and retries on every attempt
CatchBlock_AlwaysRetries(attempt, error) == Backoff(getRetryDelay(attempt))

\* a catch block that gives up on the first validation failure
CatchBlock_NoRetryOnZodError(attempt, error) ==
  IF instanceofZodError(error) THEN Return(InvalidFormatResult(error))
  ELSE IF attempt = MAX_RETRIES - 1
    THEN IF instanceofError(error) THEN Return(FailedToFetchResult(error))
         ELSE Return(UnknownErrorResult)
  ELSE Backoff(getRetryDelay(attempt))

\* lines 283-317: the catch block of the attempt
CatchBlock(attempt, error) ==
  IF LastAttempt(attempt)
    THEN IF instanceofZodError(error) THEN Return(InvalidFormatResult(error))
         ELSE IF instanceofError(error) THEN Return(FailedToFetchResult(error))
         ELSE Return(UnknownErrorResult)
  ELSE Backoff(getRetryDelay(attempt))

\* try { ... } catch (error) { ... }
\* a handler without the try/catch: an exception escapes
TryCatch_Uncaught(attempt, step) == step

TryCatch(attempt, step) ==
  IF step.next = "throw" THEN CatchBlock(attempt, step.error) ELSE step

(***************************************************************************)
(* Tool parameters.  A number is given in halves (h stands for h / 2) so  *)
(* that non-integer arguments exist.                                       *)
(***************************************************************************)
RawUserIds == (-2)..(2 * MaxUserId)

\* z.number().positive().int()
FetchUserSchema(h) == h > 0 /\ h % 2 = 0

(***************************************************************************)
(* The remote resource: what a fetch and a body read can settle with.     *)
(***************************************************************************)
Without(obj, key) == JObj([k \in DOMAIN obj.o \ {key} |-> obj.o[k]])

With(obj, key, value) == JObj(obj.o @@ (key :> value))

Replace(obj, key, value) == JObj([obj.o EXCEPT ![key] = value])

ValidBody(id) ==
  JObj([id |-> JNum(id),
        name |-> JStr("Leanne Graham"),
        username |-> JStr("Bret"),
        email |-> JStr("Sincere@april.biz"),
        address |-> JObj([street |-> JStr("Kulas Light"),
                          suite |-> JStr("Apt. 556"),
                          city |-> JStr("Gwenborough"),
                          zipcode |-> JStr("92998-3874")]),
        phone |-> JStr("1-770-736-8031"),
        website |-> JStr("http://hildegard.org"),
        company |-> JObj([name |-> JStr("Romaguera-Crona"),
                          catchPhrase |-> JStr("Multi-layered client-server neural-net"),
                          bs |-> JStr("harness real-time e-markets")])])

MissingEmail(id) == Without(ValidBody(id), "email")

ExtraTopLevel(id) == With(ValidBody(id), "role", JStr("admin"))

MissingCity(id) ==
  Replace(ValidBody(id), "address", Without(ValidBody(id).o.address, "city"))

ExtraInAddress(id) ==
  Replace(ValidBody(id), "address",
          With(ValidBody(id).o.address, "geo", JStr("-37.3159,81.1496")))

ExtraInCompany(id) ==
  Replace(ValidBody(id), "company",
          With(ValidBody(id).o.company, "logo", JStr("crona.png")))

\* two violated constraints: the zipcode and the phone formats
BadZipAndPhone(id) ==
  Replace(Replace(ValidBody(id), "phone", JStr("1-770-736-8031 x56442")),
          "address", Replace(ValidBody(id).o.address, "zipcode", JStr("9299")))

\* a valid record whose username is its name
SameNameAndUsername(id) == Replace(ValidBody(id), "username", JStr("Leanne Graham"))

Status(code, text) ==
  [kind |-> "response", status |-> code, statusText |-> text, error |-> NoError]

Rejected(error) ==
  [kind |-> "reject", status |-> 0, statusText |-> "", error |-> error]

NotRead == [kind |-> "notread", raw |-> JNull, error |-> NoError]

Json(raw) == [kind |-> "json", raw |-> raw, error |-> NoError]

JsonRejected(error) == [kind |-> "reject", raw |-> JNull, error |-> error]

\* remote = "any": every outcome; remote = "flaky": a remote that only
\* rate-limits, drops the connection or answers correctly
FetchOutcomes(r) ==
  IF r = "any"
    THEN { Status(200, "OK"), Status(404, "Not Found"),
           Status(429, "Too Many Requests"),
           Status(500, "Internal Server Error"), Status(503, ""),
           Rejected(Err("TypeError", "fetch failed", <<>>)),
           Rejected(Err("TypeError", "connect ECONNREFUSED 104.21.64.1:443", <<>>)),
           Rejected(Err("string", "", <<>>)) }
  ELSE { Status(200, "OK"), Status(429, "Too Many Requests"),
         Rejected(Err("TypeError", "fetch failed", <<>>)),
         Rejected(Err("TypeError", "connect ECONNREFUSED 104.21.64.1:443", <<>>)) }

BodyOutcomes(r, id) ==
  IF r = "any"
    THEN { Json(ValidBody(id)), Json(SameNameAndUsername(id)),
           Json(MissingEmail(id)), Json(ExtraTopLevel(id)),
           Json(MissingCity(id)), Json(ExtraInAddress(id)), Json(ExtraInCompany(id)),
           Json(BadZipAndPhone(id)), Json(JNull),
           JsonRejected(Err("SyntaxError", "Unexpected end of JSON input", <<>>)) }
  ELSE { Json(ValidBody(id)) }

(***************************************************************************)
(* Deployment (smithery.yaml): the configuration and the start command.   *)
(***************************************************************************)
\* restApi.maxRetries: minimum and maximum
MinMaxRetries == 1

MaxMaxRetries == 5

\* a setting is "unset" when the configuration leaves it out (maxRetries: 0)
Configs ==
  [calculatorEnabled : {"unset", "true", "false"},
   restApiEnabled : {"unset", "true", "false"},
   maxRetries : {0} \cup (MinMaxRetries..MaxMaxRetries)]

DefaultConfig == [calculatorEnabled |-> "unset", restApiEnabled |-> "unset", maxRetries |-> 0]

\* commandFunction: the environment of `node build/index.js`
commandFunction(c) ==
  [NODE_ENV |-> "production",
   CALCULATOR_ENABLED |-> IF c.calculatorEnabled = "unset" THEN "true" ELSE c.calculatorEnabled,
   REST_API_ENABLED |-> IF c.restApiEnabled = "unset" THEN "true" ELSE c.restApiEnabled,
   REST_API_MAX_RETRIES |-> IF c.maxRetries = 0 THEN "3" ELSE ToString(c.maxRetries)]

NoEnv ==
  [NODE_ENV |-> "", CALCULATOR_ENABLED |-> "", REST_API_ENABLED |-> "",
   REST_API_MAX_RETRIES |-> ""]

(***************************************************************************)
(* The calculator tool.                                                    *)
(***************************************************************************)
MaxOperand == 5

\* the arguments a host may send: numbers, and a value that is not a number
Operands == {JNum(n) : n \in (-MaxOperand)..MaxOperand} \cup {JStr("1")}

\* z.object({ a: z.number(), b: z.number() })
CalculatorSchema(a, b) == TypeOf(a) = "number" /\ TypeOf(b) = "number"

\* String(n) of an integer
RECURSIVE String(_)
String(n) ==
  IF n < 0 THEN "-" \o String(-n)
  ELSE IF n < 10 THEN CharAt(Digits, n + 1)
  ELSE String(n \div 10) \o CharAt(Digits, (n % 10) + 1)

\* a handler that subtracts
calculate_sum_Subtracts(a, b) == TextResult(String(a - b))

\* async (params) => ({ content: [{ type: "text", text: String(params.a + params.b) }] })
calculate_sum(a, b) == TextResult(String(a + b))

NoCalc == [pc |-> "idle", a |-> JNull, b |-> JNull, result |-> NoResult]

(***************************************************************************)
(* State.                                                                  *)
(***************************************************************************)
Invocations == {"call1", "call2"}

VARIABLES
  callers,   \* the invocations the host issues in this run
  remote,    \* the behaviour of the remote resource in this run
  pc,        \* where each invocation is suspended
  params,    \* params.userId of each invocation
  attempt,   \* the loop variable of each invocation
  response,  \* the response of the current attempt
  result,    \* the ToolResult an invocation returned
  thrown,    \* the exception an invocation let escape
  trace,     \* the network calls and backoff waits of each invocation, in order
  hist,      \* what the remote answered to each attempt
  arg,       \* the userId argument of each call as the host sent it, in halves
  config,    \* the deployment configuration given to the start command
  env,       \* the environment of the server process
  main,      \* how far the entry point of the server has run
  tools,     \* the names registered with server.tool, in order
  calc       \* the call of the calculator tool

serverVars == <<config, env, main, tools>>

vars == <<callers, remote, pc, params, attempt, response, result, thrown, trace, hist,
          arg, config, env, main, tools, calc>>

Call(a) == [ev |-> "call", arg |-> a]

Wait(ms) == [ev |-> "wait", arg |-> ms]

\* no invocation has been made
NoInvocation ==
  /\ pc = [i \in Invocations |-> "idle"]
  /\ params = [i \in Invocations |-> 0]
  /\ attempt = [i \in Invocations |-> 0]
  /\ response = [i \in Invocations |-> Status(0, "")]
  /\ result = [i \in Invocations |-> NoResult]
  /\ thrown = [i \in Invocations |-> NoError]
  /\ trace = [i \in Invocations |-> <<>>]
  /\ hist = [i \in Invocations |-> <<>>]
  /\ arg = [i \in Invocations |-> 0]
  /\ calc = NoCalc

\* the server process has not been started
NotStarted ==
  /\ env = NoEnv
  /\ main = "off"
  /\ tools = <<>>

Init ==
  /\ callers = {"call1"}
  /\ remote = "any"
  /\ config = DefaultConfig
  /\ NotStarted
  /\ NoInvocation

\* two concurrent invocations against a flaky remote
InitPair ==
  /\ callers = Invocations
  /\ remote = "flaky"
  /\ config = DefaultConfig
  /\ NotStarted
  /\ NoInvocation

\* two concurrent invocations against a remote that may answer anything
InitNaive ==
  /\ callers = Invocations
  /\ remote = "any"
  /\ config = DefaultConfig
  /\ NotStarted
  /\ NoInvocation

\* one invocation against a flaky remote
InitLive ==
  /\ callers = {"call1"}
  /\ remote = "flaky"
  /\ config = DefaultConfig
  /\ NotStarted
  /\ NoInvocation

\* one invocation against a flaky remote, under any deployment configuration
InitDeploy ==
  /\ callers = {"call1"}
  /\ remote = "flaky"
  /\ config \in Configs
  /\ NotStarted
  /\ NoInvocation

(***************************************************************************)
(* The handler runs to its next suspension.                                *)
(***************************************************************************)
\* a loop variable declared outside the handler, shared by all invocations
LoopHead_SharedCounter(i, a) ==
  /\ attempt' = [j \in Invocations |-> a]
  /\ IF LoopTest(a)
       THEN /\ pc' = [pc EXCEPT ![i] = "fetch"]
            /\ trace' = [trace EXCEPT ![i] = Append(@, Call(a))]
            /\ result' = result
       ELSE /\ pc' = [pc EXCEPT ![i] = "done"]
            /\ trace' = trace
            /\ result' = [result EXCEPT ![i] = ExhaustedResult]

\* the head of `for (let attempt = 0; attempt < MAX_RETRIES; attempt++)`
\* with the loop variable at a: the next fetch, or the code after the loop
LoopHead(i, a) ==
  /\ attempt' = [attempt EXCEPT ![i] = a]
  /\ IF LoopTest(a)
       THEN /\ pc' = [pc EXCEPT ![i] = "fetch"]
            /\ trace' = [trace EXCEPT ![i] = Append(@, Call(a))]
            /\ result' = result
       ELSE /\ pc' = [pc EXCEPT ![i] = "done"]
            /\ trace' = trace
            /\ result' = [result EXCEPT ![i] = ExhaustedResult]

\* a backoff with a jitter that differs between invocations
Proceed_Jitter(i, step) ==
  /\ pc' = [pc EXCEPT ![i] =
              CASE step.next = "return" -> "done"
                [] step.next = "backoff" -> "backoff"
                [] step.next = "json" -> "json"
                [] step.next = "throw" -> "thrown"]
  /\ result' = [result EXCEPT ![i] = step.result]
  /\ thrown' = [thrown EXCEPT ![i] = step.error]
  /\ trace' = [trace EXCEPT ![i] =
                 IF step.next = "backoff"
                   THEN Append(@, Wait(step.delay + (IF i = "call1" THEN 0 ELSE 250)))
                 ELSE @]

Proceed(i, step) ==
  /\ pc' = [pc EXCEPT ![i] =
              CASE step.next = "return" -> "done"
                [] step.next = "backoff" -> "backoff"
                [] step.next = "json" -> "json"
                [] step.next = "throw" -> "thrown"]
  /\ result' = [result EXCEPT ![i] = step.result]
  /\ thrown' = [thrown EXCEPT ![i] = step.error]
  /\ trace' = [trace EXCEPT ![i] =
                 IF step.next = "backoff" THEN Append(@, Wait(step.delay)) ELSE @]

\* the host calls the tool; the SDK validates the parameters first
Invoke(i) ==
  /\ main = "serving"
  /\ InSeq("fetch_user", tools)
  /\ i \in callers
  /\ pc[i] = "idle"
  /\ \E h \in RawUserIds :
       /\ arg' = [arg EXCEPT ![i] = h]
       /\ IF FetchUserSchema(h)
            THEN /\ params' = [params EXCEPT ![i] = h \div 2]
                 /\ LoopHead(i, 0)
            ELSE /\ pc' = [pc EXCEPT ![i] = "rejected"]
                 /\ UNCHANGED <<params, attempt, result, trace>>
  /\ UNCHANGED <<callers, remote, response, thrown, hist, serverVars, calc>>

\* `await fetch(...)` settles
FetchSettle(i) ==
  /\ pc[i] = "fetch"
  /\ \E o \in FetchOutcomes(remote) :
       /\ response' = [response EXCEPT ![i] = o]
       /\ hist' = [hist EXCEPT ![i] = Append(@, [fetch |-> o, body |-> NotRead])]
       /\ Proceed(i, TryCatch(attempt[i],
                     IF o.kind = "reject" THEN Throw(o.error)
                     ELSE OnResponse(attempt[i], params[i], o)))
  /\ UNCHANGED <<callers, remote, params, attempt, arg, serverVars, calc>>

\* `await response.json()` settles
JsonSettle(i) ==
  /\ pc[i] = "json"
  /\ \E b \in BodyOutcomes(remote, params[i]) :
       /\ hist' = [hist EXCEPT ![i] = [@ EXCEPT ![Len(hist[i])].body = b]]
       /\ Proceed(i, TryCatch(attempt[i],
                     IF b.kind = "reject" THEN Throw(b.error) ELSE OnJson(b.raw)))
  /\ UNCHANGED <<callers, remote, params, attempt, response, arg, serverVars, calc>>

\* the backoff timer fires: attempt++ and the loop test
TimerFire(i) ==
  /\ pc[i] = "backoff"
  /\ LoopHead(i, attempt[i] + 1)
  /\ UNCHANGED <<callers, remote, params, response, thrown, hist, arg, serverVars, calc>>

(***************************************************************************)
(* The single-request variant of fetch_user (rest-api.ts, lines 1-124): no *)
(* retry, a schema that checks types only, the record returned as JSON.    *)
(* Its userId is kept in halves, as the host sent it.                      *)
(***************************************************************************)
\* `${params.userId}`
NumberText(h) ==
  IF h % 2 = 0 THEN String(h \div 2)
  ELSE IF h < 0 THEN "-" \o String((-h) \div 2) \o ".5"
  ELSE String(h \div 2) \o ".5"

\* z.number().positive()
NaiveFetchUserSchema(h) == h > 0

\* JSON.stringify of a string
RECURSIVE JsonEscape(_)
JsonEscape(str) ==
  IF Len(str) = 0 THEN ""
  ELSE (IF CharAt(str, 1) = "\"" THEN "\\\""
        ELSE IF CharAt(str, 1) = "\\" THEN "\\\\"
        ELSE CharAt(str, 1)) \o JsonEscape(SubSeq(str, 2, Len(str)))

JsonQuote(str) == "\"" \o JsonEscape(str) \o "\""

\* a member `"key": value` at an indentation
Member(indent, key, value) == indent \o JsonQuote(key) \o ": " \o value

\* JSON.stringify(..., null, 2) of an object or an array from its members
Block(open, members, close, indent) ==
  IF Len(members) = 0 THEN open \o close
  ELSE open \o "\n" \o Join(members, ",\n") \o "\n" \o indent \o close

RECURSIVE QuoteEach(_, _)
QuoteEach(strs, indent) ==
  IF Len(strs) = 0 THEN <<>>
  ELSE <<indent \o JsonQuote(strs[1])>> \o QuoteEach(Tail(strs), indent)

\* the issue of a value of the wrong type, as zod builds it
InvalidType(expected, received, path) ==
  [code |-> "invalid_type", expected |-> expected, received |-> received, path |-> path,
   message |-> IF received = "undefined" THEN "Required"
               ELSE "Expected " \o expected \o ", received " \o received]

\* z.string(), z.number()
ZType(v, expected, path) ==
  IF TypeOf(v) = expected THEN <<>> ELSE <<InvalidType(expected, TypeOf(v), path)>>

NaiveAddressIssues(a) ==
  IF TypeOf(a) # "object" THEN <<InvalidType("object", TypeOf(a), <<"address">>)>>
  ELSE    ZType(Get(a, "street"), "string", <<"address", "street">>)
       \o ZType(Get(a, "suite"), "string", <<"address", "suite">>)
       \o ZType(Get(a, "city"), "string", <<"address", "city">>)
       \o ZType(Get(a, "zipcode"), "string", <<"address", "zipcode">>)

NaiveCompanyIssues(c) ==
  IF TypeOf(c) # "object" THEN <<InvalidType("object", TypeOf(c), <<"company">>)>>
  ELSE    ZType(Get(c, "name"), "string", <<"company", "name">>)
       \o ZType(Get(c, "catchPhrase"), "string", <<"company", "catchPhrase">>)
       \o ZType(Get(c, "bs"), "string", <<"company", "bs">>)

\* the issues of UserDataSchema.parse(rawData), in the order zod reports them
NaiveUserDataIssues(raw) ==
  IF TypeOf(raw) # "object" THEN <<InvalidType("object", TypeOf(raw), <<>>)>>
  ELSE    ZType(Get(raw, "id"), "number", <<"id">>)
       \o ZType(Get(raw, "name"), "string", <<"name">>)
       \o ZType(Get(raw, "username"), "string", <<"username">>)
       \o ZType(Get(raw, "email"), "string", <<"email">>)
       \o NaiveAddressIssues(Get(raw, "address"))
       \o ZType(Get(raw, "phone"), "string", <<"phone">>)
       \o ZType(Get(raw, "website"), "string", <<"website">>)
       \o NaiveCompanyIssues(Get(raw, "company"))

\* JSON.stringify(issue, null, 2) inside the array of issues
IssueJson(issue) ==
  "  " \o Block("{",
                << Member("    ", "code", JsonQuote(issue.code)),
                   Member("    ", "expected", JsonQuote(issue.expected)),
                   Member("    ", "received", JsonQuote(issue.received)),
                   Member("    ", "path",
                          Block("[", QuoteEach(issue.path, "      "), "]", "    ")),
                   Member("    ", "message", JsonQuote(issue.message)) >>,
                "}", "  ")

RECURSIVE IssuesJson(_)
IssuesJson(issues) ==
  IF Len(issues) = 0 THEN <<>> ELSE <<IssueJson(issues[1])>> \o IssuesJson(Tail(issues))

\* ZodError.message: JSON.stringify(this.issues, null, 2)
ZodErrorMessage(issues) == Block("[", IssuesJson(issues), "]", "")

\* JSON.stringify(userData, null, 2): the declared keys in the order of the
\* schema, unknown keys stripped
UserDataJson(u) ==
  Block("{",
        << Member("  ", "id", String(u.id)),
           Member("  ", "name", JsonQuote(u.name)),
           Member("  ", "username", JsonQuote(u.username)),
           Member("  ", "email", JsonQuote(u.email)),
           Member("  ", "address",
                  Block("{",
                        << Member("    ", "street", JsonQuote(u.address.street)),
                           Member("    ", "suite", JsonQuote(u.address.suite)),
                           Member("    ", "city", JsonQuote(u.address.city)),
                           Member("    ", "zipcode", JsonQuote(u.address.zipcode)) >>,
                        "}", "  ")),
           Member("  ", "phone", JsonQuote(u.phone)),
           Member("  ", "website", JsonQuote(u.website)),
           Member("  ", "company",
                  Block("{",
                        << Member("    ", "name", JsonQuote(u.company.name)),
                           Member("    ", "catchPhrase", JsonQuote(u.company.catchPhrase)),
                           Member("    ", "bs", JsonQuote(u.company.bs)) >>,
                        "}", "  ")) >>,
        "}", "")

\* status checks without the branch for 404
NaiveOnResponse_NoNotFound(h, res) ==
  IF ~ok(res.status)
    THEN Return(ErrorResult("API request failed with status " \o ToString(res.status)))
  ELSE AwaitJson

\* lines 66-83: the status checks that follow `await fetch(...)`
NaiveOnResponse(h, res) ==
  IF ~ok(res.status)
    THEN IF res.status = 404
           THEN Return(ErrorResult("User with ID " \o NumberText(h) \o " not found"))
         ELSE Return(ErrorResult("API request failed with status "
                                 \o ToString(res.status)))
  ELSE AwaitJson

\* lines 86-94: validate the parsed body and return it as JSON
NaiveOnJson(rawData) ==
  IF Len(NaiveUserDataIssues(rawData)) = 0
    THEN Return(TextResult(UserDataJson(UserDataOf(rawData))))
  ELSE Throw(Err("ZodError", ZodErrorMessage(NaiveUserDataIssues(rawData)),
                 NaiveUserDataIssues(rawData)))

\* lines 95-122: every exception becomes an error result
NaiveCatchBlock(error) ==
  IF instanceofZodError(error)
    THEN Return(ErrorResult("Invalid API response format: " \o error.message))
  ELSE IF instanceofError(error)
    THEN Return(ErrorResult("Failed to fetch user data: " \o error.message))
  ELSE Return(ErrorResult("An unknown error occurred"))

NaiveTryCatch(step) == IF step.next = "throw" THEN NaiveCatchBlock(step.error) ELSE step

(***************************************************************************)
(* The entry point (index.ts) and the start command.                       *)
(***************************************************************************)
invocationVars == <<pc, params, attempt, response, result, thrown, trace, hist, arg, calc>>

\* the start command runs `node build/index.js` with the environment of
\* commandFunction; `new McpServer(...)`
Launch ==
  /\ main = "off"
  /\ main' = "created"
  /\ env' = commandFunction(config)
  /\ UNCHANGED <<callers, remote, config, tools, invocationVars>>

\* registerCalculatorTool(server)
RegisterCalculatorTool ==
  /\ main = "created"
  /\ main' = "calculator"
  /\ tools' = Append(tools, "calculate_sum")
  /\ UNCHANGED <<callers, remote, config, env, invocationVars>>

\* registerRestApiTool(server)
RegisterRestApiTool ==
  /\ main = "calculator"
  /\ main' = "restApi"
  /\ tools' = Append(tools, "fetch_user")
  /\ UNCHANGED <<callers, remote, config, env, invocationVars>>

\* a transport that is connected before the tools are registered
Connect_Early ==
  /\ main = "created"
  /\ main' = "serving"
  /\ UNCHANGED <<callers, remote, config, env, tools, invocationVars>>

\* await server.connect(new StdioServerTransport())
Connect ==
  /\ main = "restApi"
  /\ main' = "serving"
  /\ UNCHANGED <<callers, remote, config, env, tools, invocationVars>>

\* the host calls calculate_sum; the SDK validates the parameters first and
\* the handler returns without suspending
CalculateSum ==
  /\ main = "serving"
  /\ InSeq("calculate_sum", tools)
  /\ calc.pc = "idle"
  /\ \E a, b \in Operands :
       calc' = IF CalculatorSchema(a, b)
                 THEN [pc |-> "done", a |-> a, b |-> b, result |-> calculate_sum(a.n, b.n)]
                 ELSE [pc |-> "rejected", a |-> a, b |-> b, result |-> NoResult]
  /\ UNCHANGED <<callers, remote, pc, params, attempt, response, result, thrown, trace,
                 hist, arg, serverVars>>

\* the host calls the single-request fetch_user; the SDK validates the
\* parameters first
NaiveInvoke(i) ==
  /\ main = "serving"
  /\ InSeq("fetch_user", tools)
  /\ i \in callers
  /\ pc[i] = "idle"
  /\ \E h \in RawUserIds :
       /\ arg' = [arg EXCEPT ![i] = h]
       /\ IF NaiveFetchUserSchema(h)
            THEN /\ pc' = [pc EXCEPT ![i] = "fetch"]
                 /\ trace' = [trace EXCEPT ![i] = Append(@, Call(0))]
            ELSE /\ pc' = [pc EXCEPT ![i] = "rejected"]
                 /\ UNCHANGED trace
  /\ UNCHANGED <<callers, remote, params, attempt, response, result, thrown, hist,
                 serverVars, calc>>

\* `await fetch(...)` settles
NaiveFetchSettle(i) ==
  /\ pc[i] = "fetch"
  /\ \E o \in FetchOutcomes(remote) :
       /\ response' = [response EXCEPT ![i] = o]
       /\ hist' = [hist EXCEPT ![i] = Append(@, [fetch |-> o, body |-> NotRead])]
       /\ Proceed(i, NaiveTryCatch(IF o.kind = "reject" THEN Throw(o.error)
                                   ELSE NaiveOnResponse(arg[i], o)))
  /\ UNCHANGED <<callers, remote, params, attempt, arg, serverVars, calc>>

\* `await response.json()` settles
NaiveJsonSettle(i) ==
  /\ pc[i] = "json"
  /\ \E b \in BodyOutcomes(remote, arg[i] \div 2) :
       /\ hist' = [hist EXCEPT ![i] = [@ EXCEPT ![Len(hist[i])].body = b]]
       /\ Proceed(i, NaiveTryCatch(IF b.kind = "reject" THEN Throw(b.error)
                                   ELSE NaiveOnJson(b.raw)))
  /\ UNCHANGED <<callers, remote, params, attempt, response, arg, serverVars, calc>>

Next ==
  \/ Launch
  \/ RegisterCalculatorTool
  \/ RegisterRestApiTool
  \/ Connect
  \/ \E i \in Invocations : Invoke(i)
  \/ \E i \in Invocations : FetchSettle(i)
  \/ \E i \in Invocations : JsonSettle(i)
  \/ \E i \in Invocations : TimerFire(i)

\* the server with the calculator tool only called
NextCalculator ==
  \/ Launch
  \/ RegisterCalculatorTool
  \/ RegisterRestApiTool
  \/ Connect
  \/ CalculateSum

\* the server with the single-request variant of fetch_user
NextNaive ==
  \/ Launch
  \/ RegisterCalculatorTool
  \/ RegisterRestApiTool
  \/ Connect
  \/ \E i \in Invocations : NaiveInvoke(i)
  \/ \E i \in Invocations : NaiveFetchSettle(i)
  \/ \E i \in Invocations : NaiveJsonSettle(i)

Spec == Init /\ [][Next]_vars

SpecNaive == InitNaive /\ [][NextNaive]_vars

SpecPair == InitPair /\ [][Next]_vars

\* every network call eventually resolves or rejects, every body read
\* eventually settles and every backoff timer eventually fires
Fairness ==
  \A i \in Invocations :
    /\ WF_vars(FetchSettle(i))
    /\ WF_vars(JsonSettle(i))
    /\ WF_vars(TimerFire(i))

SpecLive == InitLive /\ [][Next]_vars /\ Fairness

SpecDeploy == InitDeploy /\ [][Next]_vars

SpecCalculator == Init /\ [][NextCalculator]_vars

TypeOK ==
  /\ callers \subseteq Invocations
  /\ remote \in {"any", "flaky"}
  /\ \A i \in Invocations :
       /\ pc[i] \in {"idle", "rejected", "fetch", "json", "backoff", "done", "thrown"}
       /\ params[i] \in 0..MaxUserId
       /\ attempt[i] \in 0..MAX_RETRIES
       /\ arg[i] \in {0} \cup RawUserIds
  /\ config \in Configs
  /\ env \in {NoEnv} \cup {commandFunction(c) : c \in Configs}
  /\ main \in {"off", "created", "calculator", "restApi", "serving"}
  /\ calc.pc \in {"idle", "rejected", "done"}

(***************************************************************************)
(* Vocabulary of the properties.                                           *)
(***************************************************************************)
Started(i) == pc[i] \notin {"idle", "rejected"}

Done(i) == pc[i] = "done"

Text(i) == result[i].content[1].text

IsError(i) == "isError" \in DOMAIN result[i] /\ result[i].isError = TRUE

Calls(i) == SelectSeq(trace[i], LAMBDA e : e.ev = "call")

Waits(i) == SelectSeq(trace[i], LAMBDA e : e.ev = "wait")

\* the k-th attempt of invocation i was answered with this status
Answered(i, k, status) ==
  /\ k \in 1..Len(hist[i])
  /\ hist[i][k].fetch.kind = "response"
  /\ hist[i][k].fetch.status = status

\* the k-th attempt got a 2xx response and its body was read as JSON
ReadBody(i, k) ==
  /\ k \in 1..Len(hist[i])
  /\ hist[i][k].fetch.kind = "response"
  /\ hist[i][k].fetch.status \in 200..299
  /\ hist[i][k].body.kind = "json"

\* the k-th attempt got a 2xx response whose body satisfies UserDataSchema
ValidRecord(i, k) ==
  /\ ReadBody(i, k)
  /\ Len(UserDataIssues(hist[i][k].body.raw)) = 0

\* C1: whatever the attempts are answered with, the handler never lets an
\* exception escape; an invocation that stopped has returned a ToolResult,
\* and it has stopped once the outcome of the third attempt is known.
C1_NoExceptionEscapes ==
  \A i \in Invocations :
    /\ pc[i] # "thrown"
    /\ thrown[i] = NoError
    /\ Done(i) =>
         /\ DOMAIN result[i] \in {{"content"}, {"content", "isError"}}
         /\ Len(result[i].content) >= 1
    /\ (Len(hist[i]) = 3 /\ pc[i] # "json") => Done(i)

\* an invocation whose attempts met a rejected fetch, a body that fails
\* validation and a body that is not JSON, and that has returned
C1_Witness ==
  \E i \in Invocations :
    /\ Done(i)
    /\ Len(hist[i]) = 3
    /\ hist[i][1].fetch.kind = "reject"
    /\ ReadBody(i, 2) /\ ~ValidRecord(i, 2)
    /\ hist[i][3].body.kind = "reject"

\* C2: an invocation makes between 1 and 3 network calls, one per attempt,
\* and the n-th call is the call of attempt n-1.
C2_CallsPerAttempt ==
  \A i \in Invocations :
    Started(i) =>
      /\ Len(Calls(i)) >= 1
      /\ Len(Calls(i)) <= 3
      /\ \A n \in 1..Len(Calls(i)) : Calls(i)[n].arg = n - 1
      /\ Len(hist[i]) = IF pc[i] = "fetch" THEN Len(Calls(i)) - 1 ELSE Len(Calls(i))

\* three calls after a rate limit, a transport failure and a validation failure
C2_Witness ==
  \E i \in Invocations :
    /\ Done(i)
    /\ Len(Calls(i)) = 3
    /\ Answered(i, 1, 429)
    /\ hist[i][2].fetch.kind = "reject"
    /\ ReadBody(i, 3) /\ ~ValidRecord(i, 3)

\* C3: a 404 ends the invocation at that attempt: the result is an error
\* whose text contains the userId, the 404 call is the last event (no wait,
\* no further call), and the body is not read.
C3_NotFoundIsTerminal ==
  \A i \in Invocations :
    \A k \in 1..Len(hist[i]) :
      Answered(i, k, 404) =>
        /\ k = Len(hist[i])
        /\ Done(i)
        /\ IsError(i)
        /\ Contains(Text(i), ToString(params[i]))
        /\ Contains(Text(i), "not found")
        /\ Len(Calls(i)) = k
        /\ trace[i][Len(trace[i])] = Call(k - 1)
        /\ hist[i][k].body = NotRead

\* a 404 on the second attempt, after a rate-limited first attempt
C3_Witness ==
  \E i \in Invocations :
    /\ Answered(i, 1, 429)
    /\ Answered(i, 2, 404)
    /\ Done(i)

\* C4: 429 on all three attempts: exactly 3 calls and the rate-limit error.
C4_RateLimitedThrice ==
  \A i \in Invocations :
    (\A k \in 1..3 : Answered(i, k, 429)) =>
      /\ Done(i)
      /\ Len(Calls(i)) = 3
      /\ Len(Waits(i)) = 2
      /\ result[i] = ErrorResult("Rate limit exceeded. Please try again later.")

C4_Witness ==
  \E i \in Invocations : Done(i) /\ \A k \in 1..3 : Answered(i, k, 429)

\* C5: 429, 429, then a valid record: call, wait 1000, call, wait 2000,
\* call, and the formatted record is returned without isError.
C5_BackoffThenSuccess ==
  \A i \in Invocations :
    (Answered(i, 1, 429) /\ Answered(i, 2, 429) /\ ValidRecord(i, 3)) =>
      /\ Done(i)
      /\ trace[i] = <<Call(0), Wait(1000), Call(1), Wait(2000), Call(2)>>
      /\ result[i] = TextResult(formatUserData(UserDataOf(hist[i][3].body.raw)))
      /\ Contains(Text(i), "Name: Leanne Graham")

C5_Witness ==
  \E i \in Invocations :
    Done(i) /\ Answered(i, 1, 429) /\ Answered(i, 2, 429) /\ ValidRecord(i, 3)

\* the declared fields that a body lacks, at the top level and inside the
\* address and company sub-records
MissingFields(raw) ==
  {k \in {"id", "name", "username", "email", "address", "phone", "website", "company"} :
      k \notin DOMAIN raw.o}
  \cup (IF "address" \in DOMAIN raw.o /\ TypeOf(raw.o.address) = "object"
          THEN {"street", "suite", "city", "zipcode"} \ DOMAIN raw.o.address.o
          ELSE {})
  \cup (IF "company" \in DOMAIN raw.o /\ TypeOf(raw.o.company) = "object"
          THEN {"name", "catchPhrase", "bs"} \ DOMAIN raw.o.company.o
          ELSE {})

\* the fields of a body that the record shape does not declare
UnexpectedFields(raw) ==
  (DOMAIN raw.o \ {"id", "name", "username", "email", "address", "phone", "website", "company"})
  \cup (IF "address" \in DOMAIN raw.o /\ TypeOf(raw.o.address) = "object"
          THEN DOMAIN raw.o.address.o \ {"street", "suite", "city", "zipcode"}
          ELSE {})
  \cup (IF "company" \in DOMAIN raw.o /\ TypeOf(raw.o.company) = "object"
          THEN DOMAIN raw.o.company.o \ {"name", "catchPhrase", "bs"}
          ELSE {})

\* every attempt returned a 2xx body, an object that lacks some declared field
AllBodiesLackAField(i) ==
  \A k \in 1..3 :
    /\ ReadBody(i, k)
    /\ TypeOf(hist[i][k].body.raw) = "object"
    /\ MissingFields(hist[i][k].body.raw) # {}

\* C6: when every attempt returns a 2xx body that lacks a required field, the
\* invocation uses all 3 attempts and returns an error whose text names the
\* missing field.
C6_NamesMissingField ==
  \A i \in Invocations :
    AllBodiesLackAField(i) =>
      /\ Done(i)
      /\ Len(Calls(i)) = 3
      /\ IsError(i)
      /\ \A f \in MissingFields(hist[i][3].body.raw) : Contains(Text(i), f)

\* C7: a fetched record with a missing or an unexpected field, at the top
\* level or inside the address or company sub-record, fails validation and
\* never yields a success result.
C7_StrictRecordShape ==
  \A i \in Invocations :
    \A k \in 1..Len(hist[i]) :
      ( /\ ReadBody(i, k)
        /\ TypeOf(hist[i][k].body.raw) = "object"
        /\ MissingFields(hist[i][k].body.raw) \cup UnexpectedFields(hist[i][k].body.raw) # {} )
      => ~(Done(i) /\ k = Len(hist[i]) /\ ~IsError(i))

\* the final attempts of i and j threw a transport or unknown error, and the
\* two invocations differ at most in the message of that error
DifferOnlyInFinalMessage(i, j) ==
  /\ params[i] = params[j]
  /\ Len(hist[i]) = 3 /\ Len(hist[j]) = 3
  /\ hist[i][3].fetch.kind = "reject" /\ hist[j][3].fetch.kind = "reject"
  /\ hist[i][1] = hist[j][1]
  /\ hist[i][2] = hist[j][2]
  /\ hist[i][3].fetch.error.class = hist[j][3].fetch.error.class

\* C8: when the last attempt fails with a transport or unknown error the
\* result does not depend on the message of that error: two invocations that
\* differ only in that message return identical results.
C8_GenericTransportError ==
  \A i, j \in Invocations :
    (Done(i) /\ Done(j) /\ DifferOnlyInFinalMessage(i, j)) => result[i] = result[j]

\* C9: a non-success status other than 404 and 429 on the last attempt is
\* reported as 'Failed to fetch user data: HTTP <status>: <statusText>'.
C9_StatusInFailure ==
  \A i \in Invocations :
    ( /\ Len(hist[i]) = 3
      /\ hist[i][3].fetch.kind = "response"
      /\ hist[i][3].fetch.status \notin (200..299) \cup {404, 429} )
    => /\ Done(i)
       /\ result[i] = ErrorResult("Failed to fetch user data: HTTP "
                                    \o ToString(hist[i][3].fetch.status) \o ": "
                                    \o hist[i][3].fetch.statusText)
       /\ Contains(Text(i), ToString(hist[i][3].fetch.status))

\* a 503 on the third attempt after two other failures
C9_Witness ==
  \E i \in Invocations :
    /\ Done(i)
    /\ Answered(i, 1, 500)
    /\ hist[i][2].fetch.kind = "reject"
    /\ Answered(i, 3, 503)

FailureTexts ==
  {"User with ID ", "Rate limit exceeded", "Failed to fetch user data",
   "Invalid API response format: ", "An unknown error occurred"}

\* C10: a returned result has exactly one content item, of type text;
\* isError is absent exactly when the last attempt fetched a valid record,
\* and then the text is the formatted record; every other result has
\* isError = true and one of the failure texts.
C10_ResultShape ==
  \A i \in Invocations :
    Done(i) =>
      /\ Len(result[i].content) = 1
      /\ result[i].content[1].type = "text"
      /\ ("isError" \notin DOMAIN result[i]) <=> ValidRecord(i, Len(hist[i]))
      /\ ValidRecord(i, Len(hist[i])) =>
           Text(i) = formatUserData(UserDataOf(hist[i][Len(hist[i])].body.raw))
      /\ ~ValidRecord(i, Len(hist[i])) =>
           /\ result[i].isError = TRUE
           /\ \E t \in FailureTexts : StartsWith(Text(i), t)

\* an invocation that returned the 'not found' error result
C10_Witness ==
  \E i \in Invocations :
    /\ Done(i)
    /\ Answered(i, Len(hist[i]), 404)
    /\ IsError(i)

\* C11: the result placed after the retry loop is never returned: the loop
\* variable never reaches MAX_RETRIES, no wait follows the third attempt,
\* and every invocation that returned did so from inside an attempt.
C11_FallbackUnreachable ==
  \A i \in Invocations :
    /\ attempt[i] < 3
    /\ pc[i] = "backoff" => attempt[i] < 2
    /\ Done(i) =>
         /\ Text(i) # "Failed to fetch user data after all retry attempts"
         /\ Len(hist[i]) = attempt[i] + 1

\* an invocation whose three attempts all failed
C11_Witness ==
  \E i \in Invocations :
    /\ Done(i)
    /\ Len(hist[i]) = 3
    /\ hist[i][3].fetch.kind = "reject"
    /\ IsError(i)

\* C12: delay(attempt) = 1000 * 2^attempt: delay(0) = 1000, delay(1) = 2000,
\* delay(2) = 4000, strictly increasing over 0, 1, 2; the n-th wait of an
\* invocation is the delay of attempt n-1.
C12_ExponentialDelay ==
  /\ getRetryDelay(0) = 1000
  /\ getRetryDelay(1) = 2000
  /\ getRetryDelay(2) = 4000
  /\ \A a \in 0..2 : getRetryDelay(a) = 1000 * 2^a
  /\ \A a \in 0..1 : getRetryDelay(a) < getRetryDelay(a + 1)
  /\ \A i \in Invocations :
       \A n \in 1..Len(Waits(i)) : Waits(i)[n].arg = 1000 * 2^(n - 1)

\* an invocation that has waited twice
C12_Witness ==
  \E i \in Invocations : Len(Waits(i)) = 2 /\ pc[i] = "fetch"

\* the outcome of the k-th attempt is known and is one of the retried ones:
\* 429, another failed status but 404, a rejected fetch, a body that is not
\* JSON, a body that fails validation
Retried(i, k) ==
  /\ k \in 1..Len(hist[i])
  /\ \/ hist[i][k].fetch.kind = "reject"
     \/ /\ hist[i][k].fetch.kind = "response"
        /\ hist[i][k].fetch.status \notin (200..299) \cup {404}
     \/ /\ hist[i][k].fetch.kind = "response"
        /\ hist[i][k].fetch.status \in 200..299
        /\ \/ hist[i][k].body.kind = "reject"
           \/ /\ hist[i][k].body.kind = "json"
              /\ Len(UserDataIssues(hist[i][k].body.raw)) > 0

\* C19: on attempt 0 or 1 each retried outcome returns nothing and is
\* followed by exactly one wait of delay(attempt) and then the call of
\* attempt + 1, whether the failure was thrown or was a rate limit.
C19_FailureThenWaitThenCall ==
  \A i \in Invocations :
    \A k \in 1..2 :
      Retried(i, k) =>
        /\ ~(Done(i) /\ Len(hist[i]) = k)
        /\ Len(trace[i]) >= 2 * k
        /\ trace[i][2 * k - 1] = Call(k - 1)
        /\ trace[i][2 * k] = Wait(1000 * 2^(k - 1))
        /\ IF Len(hist[i]) = k /\ pc[i] = "backoff"
             THEN Len(trace[i]) = 2 * k /\ attempt[i] = k - 1
             ELSE /\ Len(trace[i]) >= 2 * k + 1
                  /\ trace[i][2 * k + 1] = Call(k)
                  /\ attempt[i] >= k

\* a rejected fetch, then a body that fails validation, then the third call
C19_Witness ==
  \E i \in Invocations :
    /\ Len(hist[i]) = 2
    /\ hist[i][1].fetch.kind = "reject"
    /\ ReadBody(i, 2) /\ ~ValidRecord(i, 2)
    /\ pc[i] = "fetch"
    /\ Len(Calls(i)) = 3

\* C20: a valid record on any attempt ends the invocation at that attempt:
\* the result is the formatted record without isError, whatever happened on
\* the earlier attempts, and the call of that attempt is the last event.
C20_SuccessIsTerminal ==
  \A i \in Invocations :
    \A k \in 1..Len(hist[i]) :
      ValidRecord(i, k) =>
        /\ k = Len(hist[i])
        /\ Done(i)
        /\ result[i] = TextResult(formatUserData(UserDataOf(hist[i][k].body.raw)))
        /\ "isError" \notin DOMAIN result[i]
        /\ StartsWith(Text(i), "User Profile:\n  Name: ")
        /\ Len(Calls(i)) = k
        /\ trace[i][Len(trace[i])] = Call(k - 1)

\* a valid record on the second attempt, after a rejected fetch
C20_Witness ==
  \E i \in Invocations :
    /\ Len(hist[i]) = 2
    /\ hist[i][1].fetch.kind = "reject"
    /\ ValidRecord(i, 2)
    /\ Done(i)

\* the number of places where t occurs in s
Count(s, t) ==
  Cardinality({p \in 1..(Len(s) - Len(t) + 1) : SubSeq(s, p, p + Len(t) - 1) = t})

\* the record that the first attempt of invocation i fetched
FirstRecord(i) == UserDataOf(hist[i][1].body.raw)

\* C13 as stated: a valid record on the first attempt gives one call, no
\* isError, and a text that contains the name, the email and the city
\* exactly once each, for every valid record.
C13_ExactlyOnceEach ==
  \A i \in Invocations :
    ValidRecord(i, 1) =>
      /\ Done(i)
      /\ Len(Calls(i)) = 1
      /\ ~IsError(i)
      /\ Count(Text(i), FirstRecord(i).name) = 1
      /\ Count(Text(i), FirstRecord(i).email) = 1
      /\ Count(Text(i), FirstRecord(i).address.city) = 1

\* C13 as amended: a valid record on the first attempt gives one call, no
\* isError, and a text that contains the name, the email and the city at
\* least once each; a value occurs exactly once when the text of the record
\* without that value does not contain it.
C13_AtLeastOnceEach ==
  \A i \in Invocations :
    ValidRecord(i, 1) =>
      /\ Done(i)
      /\ Len(Calls(i)) = 1
      /\ "isError" \notin DOMAIN result[i]
      /\ Count(Text(i), FirstRecord(i).name) >= 1
      /\ Count(Text(i), FirstRecord(i).email) >= 1
      /\ Count(Text(i), FirstRecord(i).address.city) >= 1
      /\ ~Contains(formatUserData([FirstRecord(i) EXCEPT !.name = ""]), FirstRecord(i).name)
           => Count(Text(i), FirstRecord(i).name) = 1
      /\ ~Contains(formatUserData([FirstRecord(i) EXCEPT !.email = ""]), FirstRecord(i).email)
           => Count(Text(i), FirstRecord(i).email) = 1
      /\ ~Contains(formatUserData([FirstRecord(i) EXCEPT !.address.city = ""]),
                   FirstRecord(i).address.city)
           => Count(Text(i), FirstRecord(i).address.city) = 1

\* the first attempt fetched a record whose username equals its name
C13_Witness ==
  \E i \in Invocations :
    /\ ValidRecord(i, 1)
    /\ FirstRecord(i).username = FirstRecord(i).name
    /\ Done(i)
    /\ Count(Text(i), FirstRecord(i).name) = 2
    /\ Count(Text(i), FirstRecord(i).email) = 1

(***************************************************************************)
(* An invocation run alone: the handler applied, attempt after attempt,   *)
(* to a given sequence of answers.                                         *)
(***************************************************************************)
\* what the try/catch of attempt a does with the answers e of that attempt
AttemptOutcome(a, userId, e) ==
  LET afterFetch ==
        TryCatch(a, IF e.fetch.kind = "reject" THEN Throw(e.fetch.error)
                    ELSE OnResponse(a, userId, e.fetch))
  IN IF afterFetch.next = "json"
       THEN TryCatch(a, IF e.body.kind = "reject" THEN Throw(e.body.error)
                        ELSE OnJson(e.body.raw))
       ELSE afterFetch

RECURSIVE RunAlone(_, _, _, _)
RunAlone(userId, answers, a, tr) ==
  IF ~LoopTest(a) THEN [result |-> ExhaustedResult, trace |-> tr]
  ELSE IF a + 1 > Len(answers) THEN [result |-> NoResult, trace |-> Append(tr, Call(a))]
  ELSE IF AttemptOutcome(a, userId, answers[a + 1]).next = "backoff"
    THEN RunAlone(userId, answers, a + 1,
                  tr \o <<Call(a), Wait(AttemptOutcome(a, userId, answers[a + 1]).delay)>>)
  ELSE [result |-> AttemptOutcome(a, userId, answers[a + 1]).result,
        trace |-> Append(tr, Call(a))]

\* the state that belongs to invocation i
Own(i) ==
  <<pc[i], params[i], attempt[i], response[i], result[i], thrown[i], trace[i], hist[i],
    arg[i]>>

\* a step of one invocation leaves the state of every other one as it is
OneInvocationPerStep ==
  \A i, j \in Invocations : (i # j /\ Own(i)' # Own(i)) => Own(j)' = Own(j)

\* an invocation that returned has the result and the calls and waits of
\* the same handler run alone on the answers it received
SameAsAlone ==
  \A i \in Invocations :
    Done(i) =>
      /\ result[i] = RunAlone(params[i], hist[i], 0, <<>>).result
      /\ trace[i] = RunAlone(params[i], hist[i], 0, <<>>).trace

\* C14: under every interleaving of two invocations, each one returns the
\* result and makes the calls and the waits it makes when run alone on the
\* same answers, and no step of one invocation changes the attempt counter
\* or any other state of the other.
C14_InvocationsIndependent == [][OneInvocationPerStep]_vars /\ []SameAsAlone

\* both invocations are in flight, each past its first attempt
C14_Witness ==
  /\ pc["call1"] = "backoff" /\ attempt["call1"] = 1
  /\ pc["call2"] = "json" /\ attempt["call2"] = 2

(***************************************************************************)
(* C18: for all numbers a and b the calculator tool returns a result with  *)
(* exactly one content item, of type text, whose text is the decimal       *)
(* string of a + b; the result carries no isError, and the handler neither *)
(* returns an error result nor throws.                                     *)
(***************************************************************************)
C18_SumAsDecimalText ==
  CalculatorSchema(calc.a, calc.b) =>
    /\ calc.pc = "done"
    /\ DOMAIN calc.result = {"content"}
    /\ Len(calc.result.content) = 1
    /\ calc.result.content[1] = [type |-> "text", text |-> ToString(calc.a.n + calc.b.n)]

\* a two-digit sum has been returned
C18_Witness ==
  /\ calc.pc = "done"
  /\ calc.a = JNum(MaxOperand)
  /\ calc.b = JNum(MaxOperand)
  /\ calc.result.content[1].text = ToString(2 * MaxOperand)

(***************************************************************************)
(* C16: the deployment setting restApi.maxRetries, exported to the server  *)
(* as REST_API_MAX_RETRIES, is the maximum number of retries: for every    *)
(* configured value m, an invocation of fetch_user makes at most the first *)
(* call and m retries.                                                     *)
(***************************************************************************)
C16_MaxRetriesBoundsAttempts ==
  \A m \in MinMaxRetries..MaxMaxRetries :
    env.REST_API_MAX_RETRIES = ToString(m) =>
      \A i \in Invocations : Len(Calls(i)) <= 1 + m

(***************************************************************************)
(* C17: when calculator.enabled is false, exported as CALCULATOR_ENABLED,  *)
(* calculate_sum is not registered; when restApi.enabled is false,         *)
(* exported as REST_API_ENABLED, fetch_user is not registered; a disabled  *)
(* tool is never invoked.                                                  *)
(***************************************************************************)
C17_DisabledToolNotRegistered ==
  /\ env.CALCULATOR_ENABLED = "false" =>
       /\ ~InSeq("calculate_sum", tools)
       /\ calc.pc = "idle"
  /\ env.REST_API_ENABLED = "false" =>
       /\ ~InSeq("fetch_user", tools)
       /\ \A i \in Invocations : pc[i] = "idle"

(***************************************************************************)
(* C15: fetch_user issues a network call only for a userId that is a       *)
(* positive integer; a call whose userId is zero, negative or not an       *)
(* integer is rejected by the validation of the parameters and causes no   *)
(* network call.                                                           *)
(***************************************************************************)
PositiveInteger(h) == h > 0 /\ h % 2 = 0

C15_OnlyPositiveIntegers ==
  \A i \in Invocations :
    /\ Len(Calls(i)) > 0 => PositiveInteger(arg[i])
    /\ (pc[i] # "idle" /\ ~PositiveInteger(arg[i])) =>
         (pc[i] = "rejected" /\ trace[i] = <<>>)

(***************************************************************************)
(* C21: when the last attempt reads a body that violates n >= 1            *)
(* constraints of the record shape, the result carries isError and its     *)
(* text is 'Invalid API response format: ' followed by the n messages, one *)
(* per violation in the order of validation, joined by ', '.               *)
(***************************************************************************)
\* the violations of the body read by the third attempt
LastViolations(i) == UserDataIssues(hist[i][3].body.raw)

C21_ListsEveryViolation ==
  \A i \in Invocations :
    (ReadBody(i, 3) /\ Len(LastViolations(i)) >= 1) =>
      /\ Done(i)
      /\ IsError(i)
      /\ Text(i) = "Invalid API response format: "
                     \o Join([k \in 1..Len(LastViolations(i)) |-> LastViolations(i)[k].message],
                             ", ")

\* the third attempt read a body with a bad zipcode and a bad phone number
C21_Witness ==
  \E i \in Invocations :
    /\ Done(i)
    /\ ReadBody(i, 3)
    /\ Len(LastViolations(i)) = 2
    /\ Text(i) = "Invalid API response format: Invalid zipcode format, Invalid phone format"

(***************************************************************************)
(* C22: if every network call eventually resolves or rejects and every     *)
(* backoff timer eventually fires, every invocation of fetch_user          *)
(* eventually returns a result; until then the handler is suspended only   *)
(* on a network response, a body read or a backoff timer.                  *)
(***************************************************************************)
Suspended(i) == pc[i] \in {"fetch", "json", "backoff"}

C22_EventuallyReturns ==
  \A i \in Invocations :
    /\ [](Started(i) => (Suspended(i) \/ Done(i)))
    /\ Started(i) ~> (Done(i) /\ Len(result[i].content) = 1)

\* an invocation has returned after two backoff waits
C22_Witness == \E i \in Invocations : Done(i) /\ Len(Waits(i)) = 2

(***************************************************************************)
(* C23: the retry behaviour is deterministic: two invocations with the     *)
(* same userId whose attempts were answered alike make the same number of  *)
(* calls, wait the same delays in the same order and return identical      *)
(* results.                                                                *)
(***************************************************************************)
SameObservations(i, j) == params[i] = params[j] /\ hist[i] = hist[j]

C23_Deterministic ==
  \A i, j \in Invocations :
    (Done(i) /\ Done(j) /\ SameObservations(i, j)) =>
      /\ Len(Calls(i)) = Len(Calls(j))
      /\ Waits(i) = Waits(j)
      /\ result[i] = result[j]

\* two invocations were both rate-limited, then refused, then rate-limited
C23_Witness ==
  /\ Done("call1") /\ Done("call2")
  /\ SameObservations("call1", "call2")
  /\ Answered("call1", 1, 429)
  /\ hist["call1"][2].fetch.kind = "reject"
  /\ Answered("call1", 3, 429)
  /\ Len(Waits("call2")) = 2

(***************************************************************************)
(* C24: the single-request fetch_user makes exactly one network call per   *)
(* invocation and never retries or waits.  A 404 yields 'User with ID <id> *)
(* not found', any other non-ok status 'API request failed with status     *)
(* <status>', a thrown error a failure text, each with isError; a valid    *)
(* body yields a result without isError; no exception escapes.             *)
(***************************************************************************)
NaiveFailureTexts ==
  {"Invalid API response format: ", "Failed to fetch user data: ", "An unknown error occurred"}

\* the result reports a thrown error
ReportsThrown(i) ==
  /\ IsError(i)
  /\ \E t \in NaiveFailureTexts : StartsWith(Text(i), t)

C24_SingleRequest ==
  \A i \in Invocations :
    /\ pc[i] \notin {"thrown", "backoff"}
    /\ thrown[i] = NoError
    /\ Len(Waits(i)) = 0
    /\ Len(Calls(i)) = (IF Started(i) THEN 1 ELSE 0)
    /\ Done(i) =>
         /\ Len(hist[i]) = 1
         /\ Len(result[i].content) = 1
         /\ LET f == hist[i][1].fetch
                b == hist[i][1].body
            IN  IF f.kind = "reject" THEN ReportsThrown(i)
                ELSE IF f.status = 404
                  THEN result[i] = ErrorResult("User with ID " \o NumberText(arg[i])
                                               \o " not found")
                ELSE IF f.status \notin 200..299
                  THEN result[i] = ErrorResult("API request failed with status "
                                               \o ToString(f.status))
                ELSE IF b.kind = "reject" THEN ReportsThrown(i)
                ELSE IF Len(NaiveUserDataIssues(b.raw)) = 0
                  THEN DOMAIN result[i] = {"content"}
                ELSE ReportsThrown(i)

\* one invocation was answered 404 for userId 1.5, the other fetched a record
C24_Witness ==
  /\ Done("call1")
  /\ arg["call1"] = 3
  /\ Answered("call1", 1, 404)
  /\ Text("call1") = "User with ID 1.5 not found"
  /\ Done("call2")
  /\ ReadBody("call2", 1)
  /\ ~IsError("call2")

(***************************************************************************)
(* C25: at start-up calculate_sum and fetch_user are each registered       *)
(* exactly once, and both registrations are complete before the stdio      *)
(* transport is connected: no tool call is received while a tool is still  *)
(* unregistered.                                                           *)
(***************************************************************************)
Registrations(name) == Len(SelectSeq(tools, LAMBDA t : t = name))

\* the host has called a tool
CallReceived == calc.pc # "idle" \/ \E i \in Invocations : pc[i] # "idle"

C25_RegisteredBeforeConnect ==
  /\ Registrations("calculate_sum") <= 1
  /\ Registrations("fetch_user") <= 1
  /\ main = "serving" =>
       (Registrations("calculate_sum") = 1 /\ Registrations("fetch_user") = 1)
  /\ CallReceived =>
       (main = "serving" /\ InSeq("calculate_sum", tools) /\ InSeq("fetch_user", tools))

\* a call of fetch_user is in flight on the connected server
C25_Witness ==
  /\ main = "serving"
  /\ tools = <<"calculate_sum", "fetch_user">>
  /\ pc["call1"] = "fetch"

(***************************************************************************)
(* C26: in every invocation the backoff waits are one fewer than the       *)
(* network calls; the k-th wait lasts 1000 * 2^(k-1) ms and lies between   *)
(* call k and call k+1; no wait follows the last attempt, 4000 ms is never *)
(* waited, and an invocation waits at most 3000 ms in total.               *)
(***************************************************************************)
RECURSIVE TotalWait(_)
TotalWait(waits) == IF Len(waits) = 0 THEN 0 ELSE waits[1].arg + TotalWait(Tail(waits))

\* calls and waits alternate, starting with call 0; the k-th wait is the
\* 2k-th event and lasts 1000 * 2^(k-1)
Alternates(tr) ==
  \A n \in 1..Len(tr) :
    IF n % 2 = 1 THEN tr[n] = [ev |-> "call", arg |-> (n - 1) \div 2]
    ELSE tr[n] = [ev |-> "wait", arg |-> 1000 * 2^((n \div 2) - 1)]

C26_WaitsBetweenCalls ==
  \A i \in Invocations :
    /\ Alternates(trace[i])
    /\ Done(i) =>
         /\ Len(Waits(i)) = Len(Calls(i)) - 1
         /\ trace[i][Len(trace[i])].ev = "call"
    /\ pc[i] = "backoff" => Len(Waits(i)) = Len(Calls(i))
    /\ \A n \in 1..Len(trace[i]) : trace[i][n] # [ev |-> "wait", arg |-> 4000]
    /\ TotalWait(Waits(i)) <= 3000

\* an invocation has returned after waiting 1000 ms and 2000 ms
C26_Witness ==
  \E i \in Invocations :
    /\ Done(i)
    /\ Len(Calls(i)) = 3
    /\ TotalWait(Waits(i)) = 3000

(***************************************************************************)
(* C27: the class of the error that is returned depends only on the        *)
(* outcome of the last attempt performed; what the earlier attempts failed *)
(* with is discarded.  'Rate limit exceeded' is returned if and only if    *)
(* the third attempt is answered 429: 429, 429, 500 yields 'Failed to      *)
(* fetch' and 500, 500, 429 yields 'Rate limit exceeded'.                  *)
(***************************************************************************)
\* the error class of the outcome of one attempt, had it been the last one
ClassOf(outcome) ==
  IF outcome.fetch.kind = "reject"
    THEN IF outcome.fetch.error.class \in {"Error", "TypeError", "SyntaxError"}
           THEN "Failed to fetch user data: "
         ELSE "An unknown error occurred while fetching user data"
  ELSE IF outcome.fetch.status = 404 THEN "User with ID "
  ELSE IF outcome.fetch.status = 429 THEN "Rate limit exceeded. Please try again later."
  ELSE IF outcome.fetch.status \notin 200..299 THEN "Failed to fetch user data: "
  ELSE IF outcome.body.kind = "reject" THEN "Failed to fetch user data: "
  ELSE "Invalid API response format: "

C27_LastAttemptDecides ==
  \A i \in Invocations :
    Done(i) =>
      /\ (Text(i) = "Rate limit exceeded. Please try again later.") <=> Answered(i, 3, 429)
      /\ IsError(i) => StartsWith(Text(i), ClassOf(hist[i][Len(hist[i])]))

\* 429, 429, 500 has been reported as a failure to fetch
C27_Witness ==
  \E i \in Invocations :
    /\ Done(i)
    /\ Answered(i, 1, 429)
    /\ Answered(i, 2, 429)
    /\ Answered(i, 3, 500)
    /\ StartsWith(Text(i), "Failed to fetch user data: ")

(***************************************************************************)
(* C28: a success result (isError absent) is returned only if the last     *)
(* attempt was answered with a 2xx status and its body satisfied           *)
(* UserDataSchema; the body of a 404, a 429 or another non-ok response is  *)
(* never read, so it never produces a success.                             *)
(***************************************************************************)
C28_SuccessNeedsOkAndValid ==
  \A i \in Invocations :
    /\ \A k \in 1..Len(hist[i]) :
         hist[i][k].body # NotRead =>
           /\ hist[i][k].fetch.kind = "response"
           /\ hist[i][k].fetch.status \in 200..299
    /\ (Done(i) /\ ~IsError(i)) =>
         /\ hist[i][Len(hist[i])].fetch.status \in 200..299
         /\ ValidRecord(i, Len(hist[i]))
         /\ Text(i) = formatUserData(UserDataOf(hist[i][Len(hist[i])].body.raw))

\* a success on the third attempt, after a 500 and a 429 whose bodies were
\* not read
C28_Witness ==
  \E i \in Invocations :
    /\ Done(i)
    /\ ~IsError(i)
    /\ Answered(i, 1, 500)
    /\ Answered(i, 2, 429)
    /\ hist[i][1].body = NotRead
    /\ hist[i][2].body = NotRead
    /\ ValidRecord(i, 3)

(***************************************************************************)
(* C29: a 2xx response whose body is not JSON is, on the last attempt,     *)
(* reported as 'Failed to fetch user data: <message of the parse error>'   *)
(* with isError, not as 'Invalid API response format'; on an earlier       *)
(* attempt it is retried after the backoff wait like any thrown failure.   *)
(***************************************************************************)
\* the k-th attempt got a 2xx response whose body could not be parsed
Unparseable(i, k) ==
  /\ k \in 1..Len(hist[i])
  /\ hist[i][k].fetch.kind = "response"
  /\ hist[i][k].fetch.status \in 200..299
  /\ hist[i][k].body.kind = "reject"
  /\ hist[i][k].body.error.class = "SyntaxError"

====
